---- MODULE Spec2Model ----
(***************************************************************************)
(* State store of the indexify server (server-next): the write path of     *)
(* IndexifyState (state_store/src/lib.rs), the read path of StateReader,   *)
(* and the create-compute-graph upload flow of the HTTP routes             *)
(* (src/routes.rs).                                                        *)
(*                                                                         *)
(* Strings are sequences of characters (small naturals).  The store is a   *)
(* record of column families, each an ordered map from key to value.       *)
(***************************************************************************)
EXTENDS Integers, Sequences, FiniteSets, TLC

\* ------------------------------------------------------------------ bounds
NumTasks == 2          \* concurrent callers sharing the store handle
MaxClock == 1          \* epoch clock values 0..MaxClock
NumUrls == 2           \* distinct blob urls (uploads) in one behaviour
MaxPage == 3           \* page sizes 1..MaxPage of a listing call
MaxFields == 2         \* fields of one multipart payload
MaxLen == 2            \* bytes of one uploaded payload

Tasks == 1..NumTasks
Urls == 1..NumUrls

\* ------------------------------------------------------------------ names
SEP == 0                                   \* key separator, not a name character
NsNames == {<<1>>, <<1, 1>>}               \* namespace names (one a prefix of the other)
GraphNames == {<<1>>, <<2>>}               \* compute graph names
ListingNames == {<<1>>, <<2>>, <<2, 1>>}   \* graph names of a partition that is paged
NodeSets == {"a"}                          \* node mappings of a graph definition

None == [none |-> TRUE]                    \* Option::None

\* lexicographic byte order of RocksDB keys
RECURSIVE KeyLess(_, _)
KeyLess(a, b) ==
    IF a = <<>> THEN b # <<>>
    ELSE IF b = <<>> THEN FALSE
    ELSE IF Head(a) # Head(b) THEN Head(a) < Head(b)
    ELSE KeyLess(Tail(a), Tail(b))

IsPrefix(p, s) == Len(p) <= Len(s) /\ SubSeq(s, 1, Len(p)) = p

\* ------------------------------------------------------------ data model
\* data_model::Namespace
Namespace(name, created_at) == [name |-> name, created_at |-> created_at]

\* data_model::ComputeGraph
ComputeGraphs == [namespace : NsNames, name : GraphNames, code_url : Urls, nodes : NodeSets]

\* key of a ComputeGraph record: (namespace, name)
GraphKey(namespace, name) == namespace \o <<SEP>> \o name

\* key prefix selecting one namespace's graphs
NamespacePrefix(namespace) == namespace \o <<SEP>>

\* ------------------------------------------------------------------ store
IndexifyObjectsColumns == {"Namespaces", "ComputeGraphs", "GraphIndex"}

EmptyCf == [k \in {} |-> None]
EmptyDb == [cf \in IndexifyObjectsColumns |-> EmptyCf]

CfPut(cf, k, v) == [x \in DOMAIN cf \cup {k} |-> IF x = k THEN v ELSE cf[x]]
CfDelete(cf, k) == [x \in DOMAIN cf \ {k} |-> cf[x]]

\* one staged write of a transaction / write batch
PutOp(cf, k, v) == [kind |-> "put", cf |-> cf, key |-> k, val |-> v]
DeleteOp(cf, k) == [kind |-> "delete", cf |-> cf, key |-> k, val |-> None]

ApplyOp(d, op) ==
    [d EXCEPT ![op.cf] = IF op.kind = "put" THEN CfPut(@, op.key, op.val)
                         ELSE CfDelete(@, op.key)]

\* commit of a write batch: all staged writes become visible together
RECURSIVE ApplyBatch(_, _)
ApplyBatch(d, batch) ==
    IF batch = <<>> THEN d ELSE ApplyBatch(ApplyOp(d, Head(batch)), Tail(batch))

\* ------------------------------------------------------------- read path
Some(v) == [none |-> FALSE, val |-> v]

\* the keys of a set in key order
RECURSIVE SortedKeys(_)
SortedKeys(S) ==
    IF S = {} THEN <<>>
    ELSE LET m == CHOOSE k \in S : \A o \in S \ {k} : KeyLess(k, o)
         IN <<m>> \o SortedKeys(S \ {m})

Take(s, n) == SubSeq(s, 1, IF n < Len(s) THEN n ELSE Len(s))

\* a page whose cursor is the first key it did not return: resuming after that
\* cursor skips the entry
get_rows_cursor_ahead(cf, prefix, cursor, limit) ==
    LET keys == SortedKeys({k \in DOMAIN cf :
                               /\ IsPrefix(prefix, k)
                               /\ cursor = None \/ KeyLess(cursor.val, k)})
        page == Take(keys, limit)
    IN [rows |-> [i \in 1..Len(page) |-> <<page[i], cf[page[i]]>>],
        cursor |-> IF Len(keys) > limit THEN Some(keys[limit + 1]) ELSE None]

\* scanner: one page of a partition, in key order, of the keys with `prefix` after
\* `cursor`; stops after `limit` rows (returning the last key visited as the cursor)
\* or at the end of the partition (returning no cursor)
get_rows_from_cf_with_limits(cf, prefix, cursor, limit) ==
    LET keys == SortedKeys({k \in DOMAIN cf :
                               /\ IsPrefix(prefix, k)
                               /\ cursor = None \/ KeyLess(cursor.val, k)})
        page == Take(keys, limit)
    IN [rows |-> [i \in 1..Len(page) |-> <<page[i], cf[page[i]]>>],
        cursor |-> IF Len(page) = limit /\ limit > 0 THEN Some(page[Len(page)]) ELSE None]

\* StateReader::get_all_rows_from_cf: every row of a partition, in key order
get_all_rows_from_cf(cf) ==
    get_rows_from_cf_with_limits(cf, <<>>, None, Cardinality(DOMAIN cf) + 1).rows

\* StateReader::get_compute_graph: point lookup of the latest committed value
get_compute_graph(d, namespace, name) ==
    LET key == GraphKey(namespace, name) IN
    IF key \in DOMAIN d.ComputeGraphs THEN Some(d.ComputeGraphs[key]) ELSE None

\* StateReader::list_compute_graphs: one page of a namespace's graphs
list_compute_graphs(d, namespace, cursor, limit) ==
    LET page == get_rows_from_cf_with_limits(d.ComputeGraphs, NamespacePrefix(namespace),
                                             cursor, limit)
    IN [compute_graphs |-> [i \in 1..Len(page.rows) |-> page.rows[i][2]],
        cursor |-> page.cursor]

\* StateReader::get_all_namespaces: one page of the Namespaces partition
get_all_namespaces(d, cursor, limit) ==
    LET page == get_rows_from_cf_with_limits(d.Namespaces, <<>>, cursor, limit)
    IN [namespaces |-> [i \in 1..Len(page.rows) |-> page.rows[i][2]],
        cursor |-> page.cursor]

\* the names of the graphs a full listing of a namespace returns
ListedNames(d, namespace) ==
    LET all == list_compute_graphs(d, namespace, None,
                                   Cardinality(DOMAIN d.ComputeGraphs) + 1).compute_graphs
    IN {all[i].name : i \in 1..Len(all)}

\* --------------------------------------------------------------- requests
\* requests::RequestType, the closed set of mutations write() dispatches
NamespaceRequest(name) == [kind |-> "CreateNameSpace", name |-> name]
CreateComputeGraphRequest(namespace, compute_graph) ==
    [kind |-> "CreateComputeGraph", namespace |-> namespace, compute_graph |-> compute_graph]
DeleteComputeGraphRequest(namespace, name) ==
    [kind |-> "DeleteComputeGraph", namespace |-> namespace, name |-> name]

RequestType ==
    {NamespaceRequest(n) : n \in NsNames}
    \cup {CreateComputeGraphRequest(ns, g) : ns \in NsNames, g \in ComputeGraphs}
    \cup {DeleteComputeGraphRequest(ns, n) : ns \in NsNames, n \in GraphNames}

\* the mutations issued while the compute-graph write path is under study: every
\* CreateComputeGraph carrying one blob url, and every DeleteComputeGraph
GraphRequests ==
    {r \in RequestType : r.kind = "CreateComputeGraph" /\ r.compute_graph.code_url = 1}
    \cup {r \in RequestType : r.kind = "DeleteComputeGraph"}

\* the mutations issued while the namespace partition is under study: every
\* CreateNameSpace, and creation and deletion of one compute graph
NamespaceStudyRequests ==
    {NamespaceRequest(n) : n \in NsNames}
    \cup {r \in RequestType : /\ r.kind = "CreateComputeGraph"
                              /\ r.namespace = <<1>>
                              /\ r.compute_graph.namespace = <<1>>
                              /\ r.compute_graph.name = <<1>>
                              /\ r.compute_graph.code_url = 1}
    \cup {DeleteComputeGraphRequest(<<1>>, <<1>>)}

NoRequest == [kind |-> "none"]

VARIABLES
    db,         \* committed contents of the TransactionDB, per column family
    clock,      \* get_epoch_time_in_ms()
    pc,         \* per task: where its call of write() stands
    req,        \* per task: the RequestType it passed to write()
    txn,        \* per task: writes staged in its open transaction, not yet committed
    res,        \* per task: what write() returned ("none" while running)
    callTime,   \* per task: the clock when write() was called
    scan,       \* a StateReader's listing call: its snapshot, its page, its progress
    http,       \* the create-compute-graph route handler: its locals and its response
    blobs       \* the blob store's medium: url -> bytes written, and whether put finished

vars == <<db, clock, pc, req, txn, res, callTime, scan, http, blobs>>

\* a reader that is not in a listing call
ScanIdle == [pc |-> "idle"]

\* a route handler that is not serving a request
HttpIdle == [pc |-> "idle"]

\* a blob store holding nothing
NoBlobs == [u \in {} |-> None]

\* ---------------------------------------------------------- state machine
\* state_machine::create_namespace: one put into the Namespaces partition, keyed by name
state_machine_create_namespace(namespace) ==
    <<PutOp("Namespaces", namespace.name, namespace)>>

\* state_machine::create_compute_graph: primary record and index entry, one transaction
state_machine_create_compute_graph(compute_graph) ==
    LET key == GraphKey(compute_graph.namespace, compute_graph.name) IN
    <<PutOp("ComputeGraphs", key, compute_graph),
      PutOp("GraphIndex", key, compute_graph.name)>>

\* state_machine::delete_compute_graph: removals staged in the caller's transaction
state_machine_delete_compute_graph(namespace, name) ==
    LET key == GraphKey(namespace, name) IN
    <<DeleteOp("ComputeGraphs", key), DeleteOp("GraphIndex", key)>>

\* A state-machine call that fails after staging `staged` of its writes returns Err;
\* it succeeds when it staged them all.
Staged(batch, staged) == SubSeq(batch, 1, staged)

\* Outcome of a self-contained transactional write: the whole batch or nothing.
TransactionalWrite(d, batch, staged, commitOk) ==
    IF staged = Len(batch) /\ commitOk THEN [db |-> ApplyBatch(d, batch), ok |-> TRUE]
    ELSE [db |-> d, ok |-> FALSE]

\* ------------------------------------------------------------- write path
Init ==
    /\ db = EmptyDb
    /\ clock = 0
    /\ pc = [t \in Tasks |-> "idle"]
    /\ req = [t \in Tasks |-> NoRequest]
    /\ txn = [t \in Tasks |-> <<>>]
    /\ res = [t \in Tasks |-> "none"]
    /\ callTime = [t \in Tasks |-> 0]
    /\ scan = ScanIdle
    /\ http = HttpIdle
    /\ blobs = NoBlobs

\* the epoch clock advances
Tick ==
    /\ clock < MaxClock
    /\ clock' = clock + 1
    /\ UNCHANGED <<db, pc, req, txn, res, callTime, scan, http, blobs>>

\* IndexifyState::write: dispatch on the request's kind
write(t, request) ==
    /\ pc[t] = "idle"
    /\ pc' = [pc EXCEPT ![t] = request.kind]
    /\ req' = [req EXCEPT ![t] = request]
    /\ res' = [res EXCEPT ![t] = "none"]
    /\ callTime' = [callTime EXCEPT ![t] = clock]
    /\ UNCHANGED <<db, clock, txn, scan, http, blobs>>

\* create_namespace with the record's created_at left at zero instead of the clock
create_namespace_zero_time(t, staged, commitOk) ==
    /\ pc[t] = "CreateNameSpace"
    /\ LET namespace == Namespace(req[t].name, 0)
           out == TransactionalWrite(db, state_machine_create_namespace(namespace),
                                     staged, commitOk)
       IN /\ db' = out.db
          /\ res' = [res EXCEPT ![t] = IF out.ok THEN "Ok" ELSE "Err"]
    /\ pc' = [pc EXCEPT ![t] = "returned"]
    /\ UNCHANGED <<clock, req, txn, callTime, scan, http, blobs>>

\* IndexifyState::create_namespace
create_namespace(t, staged, commitOk) ==
    /\ pc[t] = "CreateNameSpace"
    /\ LET namespace == Namespace(req[t].name, clock)
           out == TransactionalWrite(db, state_machine_create_namespace(namespace),
                                     staged, commitOk)
       IN /\ db' = out.db
          /\ res' = [res EXCEPT ![t] = IF out.ok THEN "Ok" ELSE "Err"]
    /\ pc' = [pc EXCEPT ![t] = "returned"]
    /\ UNCHANGED <<clock, req, txn, callTime, scan, http, blobs>>

\* create_compute_graph whose writes go to the store one by one, outside a
\* transaction: what was written before a failure stays
create_compute_graph_unbatched(t, staged, commitOk) ==
    /\ pc[t] = "CreateComputeGraph"
    /\ LET batch == state_machine_create_compute_graph(req[t].compute_graph) IN
       /\ db' = ApplyBatch(db, Staged(batch, staged))
       /\ res' = [res EXCEPT ![t] = IF staged = Len(batch) THEN "Ok" ELSE "Err"]
    /\ pc' = [pc EXCEPT ![t] = "returned"]
    /\ UNCHANGED <<clock, req, txn, callTime, scan, http, blobs>>

\* IndexifyState::create_compute_graph: only the request's compute_graph is used
create_compute_graph(t, staged, commitOk) ==
    /\ pc[t] = "CreateComputeGraph"
    /\ LET compute_graph == req[t].compute_graph
           out == TransactionalWrite(db, state_machine_create_compute_graph(compute_graph),
                                     staged, commitOk)
       IN /\ db' = out.db
          /\ res' = [res EXCEPT ![t] = IF out.ok THEN "Ok" ELSE "Err"]
    /\ pc' = [pc EXCEPT ![t] = "returned"]
    /\ UNCHANGED <<clock, req, txn, callTime, scan, http, blobs>>

\* delete_compute_graph that ignores the state-machine call's error: it goes on to
\* commit whatever was staged before the failure
delete_compute_graph_stage_unchecked(t, staged) ==
    /\ pc[t] = "DeleteComputeGraph"
    /\ LET batch == state_machine_delete_compute_graph(req[t].namespace, req[t].name) IN
       /\ txn' = [txn EXCEPT ![t] = Staged(batch, staged)]
       /\ pc' = [pc EXCEPT ![t] = "commit"]
    /\ UNCHANGED <<db, clock, req, res, callTime, scan, http, blobs>>

\* IndexifyState::delete_compute_graph, up to the state-machine call: the transaction
\* is opened and the removals are staged in it; a failing step returns the error and
\* the transaction is dropped (rolled back)
delete_compute_graph_stage(t, staged) ==
    /\ pc[t] = "DeleteComputeGraph"
    /\ LET batch == state_machine_delete_compute_graph(req[t].namespace, req[t].name) IN
       IF staged = Len(batch)
       THEN /\ txn' = [txn EXCEPT ![t] = batch]
            /\ pc' = [pc EXCEPT ![t] = "commit"]
            /\ res' = res
       ELSE /\ txn' = [txn EXCEPT ![t] = <<>>]
            /\ pc' = [pc EXCEPT ![t] = "returned"]
            /\ res' = [res EXCEPT ![t] = "Err"]
    /\ UNCHANGED <<db, clock, req, callTime, scan, http, blobs>>

\* a commit that reports failure after its writes have reached the store
delete_compute_graph_commit_leaky(t, commitOk) ==
    /\ pc[t] = "commit"
    /\ db' = ApplyBatch(db, txn[t])
    /\ res' = [res EXCEPT ![t] = IF commitOk THEN "Ok" ELSE "Err"]
    /\ txn' = [txn EXCEPT ![t] = <<>>]
    /\ pc' = [pc EXCEPT ![t] = "returned"]
    /\ UNCHANGED <<clock, req, callTime, scan, http, blobs>>

\* a commit of a delete that also removes the blobs of the graphs it deletes
delete_compute_graph_commit_cascade(t, commitOk) ==
    /\ pc[t] = "commit"
    /\ db' = IF commitOk THEN ApplyBatch(db, txn[t]) ELSE db
    /\ blobs' = IF commitOk
                THEN [u \in DOMAIN blobs \
                         {db.ComputeGraphs[k].code_url :
                             k \in DOMAIN db.ComputeGraphs \ DOMAIN db'.ComputeGraphs}
                      |-> blobs[u]]
                ELSE blobs
    /\ res' = [res EXCEPT ![t] = IF commitOk THEN "Ok" ELSE "Err"]
    /\ txn' = [txn EXCEPT ![t] = <<>>]
    /\ pc' = [pc EXCEPT ![t] = "returned"]
    /\ UNCHANGED <<clock, req, callTime, scan, http>>

\* IndexifyState::delete_compute_graph, txn.commit()
delete_compute_graph_commit(t, commitOk) ==
    /\ pc[t] = "commit"
    /\ db' = IF commitOk THEN ApplyBatch(db, txn[t]) ELSE db
    /\ res' = [res EXCEPT ![t] = IF commitOk THEN "Ok" ELSE "Err"]
    /\ txn' = [txn EXCEPT ![t] = <<>>]
    /\ pc' = [pc EXCEPT ![t] = "returned"]
    /\ UNCHANGED <<clock, req, callTime, scan, http, blobs>>

\* the caller has its result; the task serves the next request
Return(t) ==
    /\ pc[t] = "returned"
    /\ pc' = [pc EXCEPT ![t] = "idle"]
    /\ req' = [req EXCEPT ![t] = NoRequest]
    /\ res' = [res EXCEPT ![t] = "none"]
    /\ callTime' = [callTime EXCEPT ![t] = 0]
    /\ UNCHANGED <<db, clock, txn, scan, http, blobs>>

\* the handlers of the compute-graph mutations, whatever request is being served
GraphHandlers ==
    \/ \E t \in Tasks, staged \in 0..2, commitOk \in BOOLEAN :
          create_compute_graph(t, staged, commitOk)
    \/ \E t \in Tasks, staged \in 0..2 : delete_compute_graph_stage(t, staged)
    \/ \E t \in Tasks, commitOk \in BOOLEAN : delete_compute_graph_commit(t, commitOk)
    \/ \E t \in Tasks : Return(t)

\* concurrent callers creating and deleting compute graphs
Next ==
    \/ \E t \in Tasks, request \in GraphRequests : write(t, request)
    \/ GraphHandlers

Spec == Init /\ [][Next]_vars

\* concurrent callers creating namespaces while the clock advances
NextNs ==
    \/ Tick
    \/ \E t \in Tasks, request \in NamespaceStudyRequests : write(t, request)
    \/ \E t \in Tasks, staged \in 0..1, commitOk \in BOOLEAN :
          create_namespace(t, staged, commitOk)
    \/ GraphHandlers

SpecNs == Init /\ [][NextNs]_vars

\* -------------------------------------------------------------- listings
\* what a listing call scans: get_all_namespaces the whole Namespaces partition,
\* list_compute_graphs the ComputeGraphs keys of one namespace
Listings ==
    {[cf |-> "Namespaces", prefix |-> <<>>]}
    \cup {[cf |-> "ComputeGraphs", prefix |-> NamespacePrefix(ns)] : ns \in NsNames}

\* a caller starts listing a partition from its beginning, with some page size
scan_begin(listing, limit) ==
    /\ scan.pc = "idle"
    /\ scan' = [pc |-> "next", cf |-> listing.cf, prefix |-> listing.prefix,
                limit |-> limit, cursor |-> None, from |-> None, calls |-> 0,
                snapshot |-> EmptyCf, started |-> EmptyCf,
                page |-> <<>>, visited |-> <<>>]
    /\ UNCHANGED <<db, clock, pc, req, txn, res, callTime, http, blobs>>

\* a listing call reading the store as it is when the rows are read, not as it
\* was when the call started
scan_read_live ==
    /\ scan.pc = "open"
    /\ LET out == get_rows_from_cf_with_limits(db[scan.cf], scan.prefix,
                                               scan.from, scan.limit)
       IN scan' = [scan EXCEPT !.pc = IF out.cursor = None THEN "done" ELSE "next",
                               !.page = out.rows,
                               !.cursor = out.cursor,
                               !.visited = @ \o out.rows]
    /\ UNCHANGED <<db, clock, pc, req, txn, res, callTime, http, blobs>>

\* a listing call (get_all_namespaces, list_compute_graphs) starts: the reader
\* pins a snapshot of the partition
scan_open ==
    /\ scan.pc = "next"
    /\ scan' = [scan EXCEPT !.pc = "open",
                            !.from = scan.cursor,
                            !.calls = 1,
                            !.snapshot = db[scan.cf],
                            !.started = db[scan.cf]]
    /\ UNCHANGED <<db, clock, pc, req, txn, res, callTime, http, blobs>>

\* the listing call reads its page from the snapshot and returns it with a cursor
scan_read ==
    /\ scan.pc = "open"
    /\ LET out == get_rows_from_cf_with_limits(scan.snapshot, scan.prefix,
                                               scan.from, scan.limit)
       IN scan' = [scan EXCEPT !.pc = IF out.cursor = None THEN "done" ELSE "next",
                               !.page = out.rows,
                               !.cursor = out.cursor,
                               !.visited = @ \o out.rows]
    /\ UNCHANGED <<db, clock, pc, req, txn, res, callTime, http, blobs>>

\* the caller is done with the listing
scan_end ==
    /\ scan.pc = "done"
    /\ scan' = ScanIdle
    /\ UNCHANGED <<db, clock, pc, req, txn, res, callTime, http, blobs>>

\* the store after a set of compute graphs and namespaces has been created
RECURSIVE StoreOf(_, _)
StoreOf(graphs, namespaces) ==
    IF graphs # {}
    THEN LET g == CHOOSE x \in graphs : TRUE
         IN ApplyBatch(StoreOf(graphs \ {g}, namespaces),
                       state_machine_create_compute_graph(g))
    ELSE IF namespaces # {}
    THEN LET n == CHOOSE x \in namespaces : TRUE
         IN ApplyBatch(StoreOf(graphs, namespaces \ {n}),
                       state_machine_create_namespace(Namespace(n, 0)))
    ELSE EmptyDb

\* the graphs of a partition that is paged
ListingGraphs == [namespace : NsNames, name : ListingNames, code_url : {1}, nodes : NodeSets]

\* a quiescent store holding any of the listing graphs and namespaces
InitPage ==
    /\ \E graphs \in SUBSET ListingGraphs, namespaces \in SUBSET NsNames :
          db = StoreOf(graphs, namespaces)
    /\ clock = 0
    /\ pc = [t \in Tasks |-> "idle"]
    /\ req = [t \in Tasks |-> NoRequest]
    /\ txn = [t \in Tasks |-> <<>>]
    /\ res = [t \in Tasks |-> "none"]
    /\ callTime = [t \in Tasks |-> 0]
    /\ scan = ScanIdle
    /\ http = HttpIdle
    /\ blobs = NoBlobs

\* a reader paging through a partition nobody writes
NextPage ==
    \/ \E listing \in Listings, limit \in 1..MaxPage : scan_begin(listing, limit)
    \/ scan_open
    \/ scan_read
    \/ scan_end

SpecPage == InitPage /\ [][NextPage]_vars

\* the mutations issued while a reader lists: creation and deletion of every
\* compute graph under its own namespace, and every CreateNameSpace
ScanStudyRequests ==
    {r \in GraphRequests : r.kind = "CreateComputeGraph"
                              => r.namespace = r.compute_graph.namespace}
    \cup {NamespaceRequest(n) : n \in NsNames}

\* a reader listing while one caller writes
NextScan ==
    \/ \E listing \in Listings, limit \in 1..MaxPage : scan_begin(listing, limit)
    \/ scan_open
    \/ scan_read
    \/ scan_end
    \/ \E request \in ScanStudyRequests : write(1, request)
    \/ \E staged \in 0..1, commitOk \in BOOLEAN : create_namespace(1, staged, commitOk)
    \/ \E staged \in 0..2, commitOk \in BOOLEAN : create_compute_graph(1, staged, commitOk)
    \/ \E staged \in 0..2 : delete_compute_graph_stage(1, staged)
    \/ \E commitOk \in BOOLEAN : delete_compute_graph_commit(1, commitOk)
    \/ Return(1)

SpecScan == Init /\ [][NextScan]_vars

\* ------------------------------------------------------------ blob upload
Bytes == {0, 1}

\* the chunks an upload stream may yield
Chunks == UNION {[1..n -> Bytes] : n \in 0..MaxLen}

\* Sha256::new(): the running digest before any byte
Sha256_new == 0

\* hasher.update(&bytes): the bytes are folded into the running digest one by one
RECURSIVE hasher_update(_, _)
hasher_update(h, bytes) ==
    IF bytes = <<>> THEN h
    ELSE hasher_update(3 * h + Head(bytes) + 1, Tail(bytes))

\* hasher.finalize()
hasher_finalize(h) == h

\* the digest of a whole payload, computed from its last byte back
RECURSIVE Sha256_digest(_)
Sha256_digest(payload) ==
    IF payload = <<>> THEN 0
    ELSE 3 * Sha256_digest(SubSeq(payload, 1, Len(payload) - 1))
         + payload[Len(payload)] + 1

\* format!("{:x}", hash_result): the digest as hex digits, most significant first
RECURSIVE format_hex(_)
format_hex(n) == IF n < 16 THEN <<n>> ELSE format_hex(n \div 16) \o <<n % 16>>

\* format!("{}_{}", namespace, nanoid!()): the prefix and a fresh identifier
FileName(namespace, id) == <<namespace, id>>

\* the url under which the blob store keeps a file
BlobUrl(file_name) == file_name[2]

\* nanoid!() never repeats an identifier; which one it produces is immaterial, so
\* it is the least one not yet produced
FreshIds == {id \in Urls \ DOMAIN blobs : \A other \in Urls \ DOMAIN blobs : id <= other}

\* the graph definitions a compute_graph field may carry
Definitions == [namespace : NsNames, name : GraphNames, nodes : NodeSets]

\* http_objects::ComputeGraph::into_data_model(&code_url)
into_data_model(definition, code_url) ==
    [namespace |-> definition.namespace, name |-> definition.name,
     code_url |-> code_url, nodes |-> definition.nodes]

\* the error a compute_graph field that is not valid JSON turns into
FromSerdeError == "BadRequest"

\* the task in which the route handler calls write()
HttpTask == 1

\* the handler returns `response`
Respond(response) == [http EXCEPT !.pc = "responded", !.response = response]

\* routes::create_compute_graph is called with the namespace of the path
http_create_compute_graph(namespace) ==
    /\ http.pc = "idle"
    /\ pc[HttpTask] = "idle"
    /\ http' = [pc |-> "fields", namespace |-> namespace, fields |-> 0,
                compute_graph_definition |-> None, write_result |-> None,
                hasher |-> Sha256_new, file_name |-> None, inflight |-> None,
                sent |-> <<>>, chunks |-> 0, payload |-> <<>>,
                put_error |-> None, submitted |-> FALSE, definition_first |-> FALSE,
                response |-> "none"]
    /\ UNCHANGED <<db, clock, pc, req, txn, res, callTime, scan, blobs>>

\* next_field() yields a field named "code": put is called on its hashed stream
field_code(id) ==
    /\ http.pc = "fields"
    /\ http.fields < MaxFields
    /\ id \in FreshIds
    /\ LET file_name == FileName(http.namespace, id) IN
       /\ http' = [http EXCEPT !.pc = "put", !.fields = @ + 1,
                               !.hasher = Sha256_new, !.file_name = Some(file_name),
                               !.inflight = None, !.sent = <<>>, !.chunks = 0,
                               !.definition_first = http.compute_graph_definition # None]
       /\ blobs' = [u \in DOMAIN blobs \cup {BlobUrl(file_name)} |->
                      IF u = BlobUrl(file_name)
                      THEN [data |-> <<>>, complete |-> FALSE, truncated |-> FALSE]
                      ELSE blobs[u]]
    /\ UNCHANGED <<db, clock, pc, req, txn, res, callTime, scan>>

\* the hashed stream that starts a new hasher for every chunk
stream_chunk_rehash(bytes) ==
    /\ http.pc = "put"
    /\ http.inflight = None
    /\ Len(http.sent) + Len(bytes) <= MaxLen
    /\ http' = [http EXCEPT !.hasher = hasher_update(Sha256_new, bytes),
                            !.inflight = Some(bytes),
                            !.sent = @ \o bytes,
                            !.chunks = IF @ < 2 THEN @ + 1 ELSE @]
    /\ UNCHANGED <<db, clock, pc, req, txn, res, callTime, scan, blobs>>

\* put polls the hashed stream and it yields a chunk: the chunk is folded into
\* the hasher and handed to the blob store
stream_chunk(bytes) ==
    /\ http.pc = "put"
    /\ http.inflight = None
    /\ Len(http.sent) + Len(bytes) <= MaxLen
    /\ http' = [http EXCEPT !.hasher = hasher_update(@, bytes),
                            !.inflight = Some(bytes),
                            !.sent = @ \o bytes,
                            !.chunks = IF @ < 2 THEN @ + 1 ELSE @]
    /\ UNCHANGED <<db, clock, pc, req, txn, res, callTime, scan, blobs>>

\* the blob store writes the chunk it holds to its medium, or fails to
blob_write(ok) ==
    /\ http.pc = "put"
    /\ http.inflight # None
    /\ LET url == BlobUrl(http.file_name.val) IN
       IF ok
       THEN /\ blobs' = [blobs EXCEPT ![url].data = @ \o http.inflight.val]
            /\ http' = [http EXCEPT !.inflight = None]
       ELSE /\ blobs' = blobs
            /\ http' = [Respond("InternalError") EXCEPT !.inflight = None,
                                                        !.put_error = Some("IOError")]
    /\ UNCHANGED <<db, clock, pc, req, txn, res, callTime, scan>>

\* the stream's end: put returns its result and the handler builds the
\* WriteStreamResult from it and from the hasher
PutReturns(truncated) ==
    LET file_name == http.file_name.val
        url == BlobUrl(file_name)
    IN /\ blobs' = [blobs EXCEPT ![url].complete = TRUE, ![url].truncated = truncated]
       /\ http' = [http EXCEPT
             !.pc = "fields",
             !.payload = http.sent,
             !.write_result =
                 Some([url |-> url,
                       size_bytes |-> Len(blobs[url].data),
                       hash |-> format_hex(hasher_finalize(http.hasher)),
                       file_name |-> file_name])]

\* a failing stream taken for a finished one
stream_error_as_end ==
    /\ http.pc = "put"
    /\ http.inflight = None
    /\ PutReturns(TRUE)
    /\ UNCHANGED <<db, clock, pc, req, txn, res, callTime, scan>>

\* put polls the hashed stream and it yields an error (the caller disconnected):
\* put returns the error and the handler returns it as an internal error
stream_error ==
    /\ http.pc = "put"
    /\ http.inflight = None
    /\ blobs' = [blobs EXCEPT ![BlobUrl(http.file_name.val)].truncated = TRUE]
    /\ http' = [Respond("InternalError") EXCEPT !.put_error = Some("StreamError")]
    /\ UNCHANGED <<db, clock, pc, req, txn, res, callTime, scan>>

\* put polls the hashed stream and it has ended
stream_end ==
    /\ http.pc = "put"
    /\ http.inflight = None
    /\ PutReturns(FALSE)
    /\ UNCHANGED <<db, clock, pc, req, txn, res, callTime, scan>>

\* the contents a compute_graph field may have
FieldTexts ==
    {[kind |-> "unreadable"], [kind |-> "not json"]}
    \cup {[kind |-> "json", definition |-> d] : d \in Definitions}

\* next_field() yields a field named "compute_graph": its text is read and parsed
field_compute_graph(text) ==
    /\ http.pc = "fields"
    /\ http.fields < MaxFields
    /\ http' = IF text.kind = "unreadable" THEN Respond("BadRequest")
               ELSE IF text.kind = "not json" THEN Respond(FromSerdeError)
               ELSE [http EXCEPT !.fields = @ + 1,
                                 !.compute_graph_definition = Some(text.definition)]
    /\ UNCHANGED <<db, clock, pc, req, txn, res, callTime, scan, blobs>>

\* next_field() yields a field with another name, or with none: it is skipped
field_other ==
    /\ http.pc = "fields"
    /\ http.fields < MaxFields
    /\ http' = [http EXCEPT !.fields = @ + 1]
    /\ UNCHANGED <<db, clock, pc, req, txn, res, callTime, scan, blobs>>

\* next_field() fails: the unwrap panics and the request gets no response
field_error ==
    /\ http.pc = "fields"
    /\ http' = Respond("panic")
    /\ UNCHANGED <<db, clock, pc, req, txn, res, callTime, scan, blobs>>

\* the end of the fields with a missing field reported as a server fault
fields_end_server_fault ==
    /\ http.pc = "fields"
    /\ IF http.compute_graph_definition = None \/ http.write_result = None
       THEN /\ http' = Respond("InternalError")
            /\ UNCHANGED <<pc, req, res, callTime>>
       ELSE LET code_url == http.write_result.val.url
                compute_graph == into_data_model(http.compute_graph_definition.val,
                                                 code_url)
                request == CreateComputeGraphRequest(http.namespace, compute_graph)
            IN /\ http' = [http EXCEPT !.pc = "write", !.submitted = TRUE]
               /\ pc' = [pc EXCEPT ![HttpTask] = request.kind]
               /\ req' = [req EXCEPT ![HttpTask] = request]
               /\ res' = [res EXCEPT ![HttpTask] = "none"]
               /\ callTime' = [callTime EXCEPT ![HttpTask] = clock]
    /\ UNCHANGED <<db, clock, txn, scan, blobs>>

\* the end of the fields that requires the definition only: without a descriptor
\* the graph is submitted with an empty code url
fields_end_without_code ==
    /\ http.pc = "fields"
    /\ IF http.compute_graph_definition = None
       THEN /\ http' = Respond("BadRequest")
            /\ UNCHANGED <<pc, req, res, callTime>>
       ELSE LET code_url == IF http.write_result = None THEN 0
                            ELSE http.write_result.val.url
                compute_graph == into_data_model(http.compute_graph_definition.val,
                                                 code_url)
                request == CreateComputeGraphRequest(http.namespace, compute_graph)
            IN /\ http' = [http EXCEPT !.pc = "write", !.submitted = TRUE]
               /\ pc' = [pc EXCEPT ![HttpTask] = request.kind]
               /\ req' = [req EXCEPT ![HttpTask] = request]
               /\ res' = [res EXCEPT ![HttpTask] = "none"]
               /\ callTime' = [callTime EXCEPT ![HttpTask] = clock]
    /\ UNCHANGED <<db, clock, txn, scan, blobs>>

\* next_field() yields None: both fields are required; the code url is put into
\* the graph and write(CreateComputeGraph) is called
fields_end ==
    /\ http.pc = "fields"
    /\ IF http.compute_graph_definition = None \/ http.write_result = None
       THEN /\ http' = Respond("BadRequest")
            /\ UNCHANGED <<pc, req, res, callTime>>
       ELSE LET code_url == http.write_result.val.url
                compute_graph == into_data_model(http.compute_graph_definition.val,
                                                 code_url)
                request == CreateComputeGraphRequest(http.namespace, compute_graph)
            IN /\ http' = [http EXCEPT !.pc = "write", !.submitted = TRUE]
               /\ pc' = [pc EXCEPT ![HttpTask] = request.kind]
               /\ req' = [req EXCEPT ![HttpTask] = request]
               /\ res' = [res EXCEPT ![HttpTask] = "none"]
               /\ callTime' = [callTime EXCEPT ![HttpTask] = clock]
    /\ UNCHANGED <<db, clock, txn, scan, blobs>>

\* write() has returned: its error becomes an internal error, else the response is Ok
write_returns ==
    /\ http.pc = "write"
    /\ pc[HttpTask] = "returned"
    /\ http' = Respond(IF res[HttpTask] = "Ok" THEN "Ok" ELSE "InternalError")
    /\ pc' = [pc EXCEPT ![HttpTask] = "idle"]
    /\ req' = [req EXCEPT ![HttpTask] = NoRequest]
    /\ res' = [res EXCEPT ![HttpTask] = "none"]
    /\ UNCHANGED <<db, clock, txn, callTime, scan, blobs>>

\* one create-compute-graph request, from its arrival to its response
NextFlow ==
    \/ \E namespace \in NsNames : http_create_compute_graph(namespace)
    \/ \E id \in Urls : field_code(id)
    \/ \E bytes \in Chunks : stream_chunk(bytes)
    \/ \E ok \in BOOLEAN : blob_write(ok)
    \/ stream_error
    \/ stream_end
    \/ \E text \in FieldTexts : field_compute_graph(text)
    \/ field_other
    \/ field_error
    \/ fields_end
    \/ \E staged \in 0..2, commitOk \in BOOLEAN :
          create_compute_graph(HttpTask, staged, commitOk)
    \/ write_returns

SpecFlow == Init /\ [][NextFlow]_vars

\* ------------------------------------------------------ deletes and blobs
\* a blob store in which every upload has finished
UploadedBlobs ==
    [u \in Urls |-> [data |-> <<u % 2>>, complete |-> TRUE, truncated |-> FALSE]]

\* a service whose uploads have finished and whose store is still empty
InitDelete ==
    /\ db = EmptyDb
    /\ clock = 0
    /\ pc = [t \in Tasks |-> "idle"]
    /\ req = [t \in Tasks |-> NoRequest]
    /\ txn = [t \in Tasks |-> <<>>]
    /\ res = [t \in Tasks |-> "none"]
    /\ callTime = [t \in Tasks |-> 0]
    /\ scan = ScanIdle
    /\ http = HttpIdle
    /\ blobs = UploadedBlobs

\* the mutations issued while deletes are under study: creation of every compute
\* graph under its own namespace with any uploaded code, every CreateNameSpace, and
\* every DeleteComputeGraph
DeleteStudyRequests ==
    {r \in RequestType : r.kind = "CreateComputeGraph"
                             => r.namespace = r.compute_graph.namespace}

\* one caller creating namespaces and graphs and deleting graphs
NextDelete ==
    \/ \E request \in DeleteStudyRequests : write(1, request)
    \/ \E staged \in 0..1, commitOk \in BOOLEAN : create_namespace(1, staged, commitOk)
    \/ \E staged \in 0..2, commitOk \in BOOLEAN : create_compute_graph(1, staged, commitOk)
    \/ \E staged \in 0..2 : delete_compute_graph_stage(1, staged)
    \/ \E commitOk \in BOOLEAN : delete_compute_graph_commit(1, commitOk)
    \/ Return(1)

SpecDelete == InitDelete /\ [][NextDelete]_vars

\* ------------------------------------------------------------------ claims
Returned(t, kind) == pc[t] = "returned" /\ req[t].kind = kind

\* primary records and index entries go together, key by key
PrimaryIndexAgree ==
    /\ DOMAIN db.ComputeGraphs = DOMAIN db.GraphIndex
    /\ \A k \in DOMAIN db.ComputeGraphs : db.GraphIndex[k] = db.ComputeGraphs[k].name

\* task t's delete commits in this step
DeleteCommits(t) == pc[t] = "commit" /\ pc'[t] = "returned" /\ res'[t] = "Ok"

DeleteLeavesNothing ==
    \A t \in Tasks : DeleteCommits(t) =>
        /\ get_compute_graph(db', req[t].namespace, req[t].name) = None
        /\ req[t].name \notin ListedNames(db', req[t].namespace)
        /\ GraphKey(req[t].namespace, req[t].name) \notin DOMAIN db'.GraphIndex

\* C1 (delete atomicity): in every committed state a graph's primary record and its
\* index entry are both present or both absent, and the step that commits
\* DeleteComputeGraph(ns, name) leaves get_compute_graph(ns, name) not-found, the
\* name out of list_compute_graphs(ns) and the index entry gone, all at once.
C1_DeleteAtomicity == [](PrimaryIndexAgree) /\ [][DeleteLeavesNothing]_vars

\* a delete has committed and removed a graph that another caller had created
C1_Witness ==
    \E t1, t2 \in Tasks :
        /\ Returned(t1, "CreateComputeGraph") /\ res[t1] = "Ok"
        /\ Returned(t2, "DeleteComputeGraph") /\ res[t2] = "Ok"
        /\ req[t2].namespace = req[t1].compute_graph.namespace
        /\ req[t2].name = req[t1].compute_graph.name
        /\ get_compute_graph(db, req[t2].namespace, req[t2].name) = None
        /\ DOMAIN db.ComputeGraphs # {}

\* a step of task t's delete
DeleteSteps(t) == pc[t] \in {"DeleteComputeGraph", "commit"} /\ pc'[t] # pc[t]

DeleteAbortsClean ==
    \A t \in Tasks : DeleteSteps(t) =>
        \/ DeleteCommits(t)
        \/ pc'[t] = "commit" /\ db' = db /\ res'[t] = "none"
        \/ pc'[t] = "returned" /\ res'[t] = "Err" /\ db' = db

\* C2 (delete abort): every step of DeleteComputeGraph other than its successful
\* commit leaves the store exactly as it was, and when the state-machine step or
\* the commit fails, write() returns an error.
C2_DeleteAbort == [][DeleteAbortsClean]_vars

\* a delete of an existing graph returned an error and the graph is still there
C2_Witness ==
    \E t \in Tasks :
        /\ Returned(t, "DeleteComputeGraph") /\ res[t] = "Err"
        /\ get_compute_graph(db, req[t].namespace, req[t].name) # None
        /\ GraphKey(req[t].namespace, req[t].name) \in DOMAIN db.GraphIndex

CreateBothOrNeither ==
    \A t \in Tasks : (pc[t] = "CreateComputeGraph" /\ pc'[t] # pc[t]) =>
        LET g == req[t].compute_graph
            key == GraphKey(g.namespace, g.name)
        IN \/ /\ res'[t] = "Ok"
              /\ key \in DOMAIN db'.ComputeGraphs /\ db'.ComputeGraphs[key] = g
              /\ key \in DOMAIN db'.GraphIndex /\ db'.GraphIndex[key] = g.name
              /\ \A cf \in IndexifyObjectsColumns :
                    \A k \in DOMAIN db[cf] \ {key} :
                       k \in DOMAIN db'[cf] /\ db'[cf][k] = db[cf][k]
           \/ res'[t] = "Err" /\ db' = db

NamespaceEntries(name) ==
    LET rows == get_all_rows_from_cf(db.Namespaces)
    IN {i \in 1..Len(rows) : rows[i][2].name = name}

\* C5 (namespace round-trip): once write(CreateNameSpace(N)) has returned Ok, and
\* whatever mutations follow, a full listing of the Namespaces partition holds
\* exactly one entry named N, with created_at not earlier than the call's time.
C5_NamespaceRoundTrip ==
    \A t \in Tasks : (Returned(t, "CreateNameSpace") /\ res[t] = "Ok") =>
        LET rows == get_all_rows_from_cf(db.Namespaces) IN
        /\ Cardinality(NamespaceEntries(req[t].name)) = 1
        /\ \A i \in NamespaceEntries(req[t].name) : rows[i][2].created_at >= callTime[t]

\* a namespace created by a call made after the clock had advanced is listed,
\* beside another namespace
C5_Witness ==
    \E t \in Tasks :
        /\ Returned(t, "CreateNameSpace") /\ res[t] = "Ok"
        /\ callTime[t] >= 1
        /\ Cardinality(NamespaceEntries(req[t].name)) = 1
        /\ Cardinality(DOMAIN db.Namespaces) = 2

\* C10 (concurrent disjoint writes): two CreateComputeGraph mutations on different
\* (ns, name) pairs that both returned Ok are both retrievable by
\* get_compute_graph(ns, name) and listed in list_compute_graphs(ns).
C10_ConcurrentDisjointWrites ==
    \A t1, t2 \in Tasks :
        (/\ t1 # t2
         /\ Returned(t1, "CreateComputeGraph") /\ res[t1] = "Ok"
         /\ Returned(t2, "CreateComputeGraph") /\ res[t2] = "Ok"
         /\ <<req[t1].namespace, req[t1].compute_graph.name>>
               # <<req[t2].namespace, req[t2].compute_graph.name>>)
        => \A t \in {t1, t2} :
              /\ get_compute_graph(db, req[t].namespace, req[t].compute_graph.name)
                    = Some(req[t].compute_graph)
              /\ req[t].compute_graph.name \in ListedNames(db, req[t].namespace)

\* the rows of the partition being listed that carry the listing's prefix
ListedRows(cf, prefix) == {<<k, cf[k]>> : k \in {x \in DOMAIN cf : IsPrefix(prefix, x)}}

\* C8 (pagination stability): over a partition nobody writes, paging from no cursor
\* with the returned cursors until none is returned visits every entry of the listed
\* partition exactly once, in ascending key order, whatever the page size; no page
\* is longer than the page size, and the last page returns no cursor.
C8_PaginationStability ==
    scan.pc = "done" =>
        /\ \A i, j \in 1..Len(scan.visited) :
              i < j => KeyLess(scan.visited[i][1], scan.visited[j][1])
        /\ {scan.visited[i] : i \in 1..Len(scan.visited)}
              = ListedRows(db[scan.cf], scan.prefix)
        /\ Len(scan.page) <= scan.limit
        /\ scan.cursor = None

\* a listing of three graphs of one namespace has finished after two pages, while
\* the other namespace holds graphs too
C8_Witness ==
    /\ scan.pc = "done"
    /\ scan.cf = "ComputeGraphs"
    /\ scan.limit = 2
    /\ Len(scan.visited) = 3
    /\ Len(scan.page) = 1
    /\ Cardinality(DOMAIN db.ComputeGraphs) > 3

SubmittedGraph ==
    into_data_model(http.compute_graph_definition.val, http.write_result.val.url)

\* C4 (graph identity): once the create-compute-graph flow has answered Ok for the
\* namespace of the path, looking the graph up in that namespace by its name
\* returns the submitted definition with the url of the uploaded code.
C4_GraphIdentity ==
    (http.pc = "responded" /\ http.response = "Ok") =>
        get_compute_graph(db, http.namespace, SubmittedGraph.name) = Some(SubmittedGraph)

\* C6 (hash integrity): the descriptor of a successful upload carries the hex digest
\* of the whole payload, computed over the payload in one piece, and the payload's
\* length, however the payload was cut into chunks; the blob holds that payload.
C6_HashIntegrity ==
    http.pc # "idle" /\ http.write_result # None =>
        LET w == http.write_result.val IN
        /\ w.hash = format_hex(Sha256_digest(http.payload))
        /\ w.size_bytes = Len(http.payload)
        /\ blobs[w.url].data = http.payload

\* a payload of several bytes came in several chunks and got a descriptor
C6_Witness ==
    /\ http.pc = "fields"
    /\ http.write_result # None
    /\ Len(http.payload) = MaxLen
    /\ http.payload[1] # http.payload[MaxLen]
    /\ http.chunks > 1

CreateCommits(t) == pc[t] = "CreateComputeGraph" /\ pc'[t] = "returned" /\ res'[t] = "Ok"

\* a lookup that starts right after a mutation of (ns, name) has committed sees
\* that mutation's outcome
CommitVisible ==
    \A t \in Tasks :
        /\ CreateCommits(t) =>
              get_compute_graph(db', req[t].namespace, req[t].compute_graph.name)
                 = Some(req[t].compute_graph)
        /\ DeleteCommits(t) =>
              get_compute_graph(db', req[t].namespace, req[t].name) = None

\* C11 (same-key serialization, read-your-writes): the step in which a mutation of
\* (ns, name) commits and write() returns Ok makes that mutation's outcome the value
\* of get_compute_graph(ns, name): the created graph after a create, not-found
\* after a delete, whatever an earlier mutation of the key had left.
C11_ReadYourWrites == [][CommitVisible]_vars

\* a mutation is submitted only by a request that carried both fields
SubmittedHasBothFields ==
    (http.pc # "idle" /\ (http.submitted \/ http.response = "Ok")) =>
        http.compute_graph_definition # None /\ http.write_result # None

\* the handler answers while reading the fields (a field is missing at their end,
\* or the compute_graph field cannot be read or parsed): the answer is BadRequest,
\* nothing was submitted and the store is as it was
RejectedAsBadRequest ==
    (http.pc = "fields" /\ http'.pc = "responded" /\ http'.response # "panic") =>
        /\ http'.response = "BadRequest"
        /\ ~http'.submitted
        /\ pc'[HttpTask] = "idle"
        /\ db' = db /\ db' = EmptyDb

\* C12 (required multipart fields): a create-compute-graph request that lacks the
\* code field or the compute_graph field, or whose compute_graph field is not
\* parseable, is answered with BadRequest, never InternalError, without a
\* CreateComputeGraph mutation and with the state store unchanged.
C12_RequiredFields == [](SubmittedHasBothFields) /\ [][RejectedAsBadRequest]_vars

\* a request that uploaded its code but carried no graph definition was rejected
C12_Witness ==
    /\ http.pc = "responded"
    /\ http.response = "BadRequest"
    /\ http.write_result # None
    /\ http.compute_graph_definition = None
    /\ http.put_error = None
    /\ db = EmptyDb

\* a committed mutation submitted for namespace ns changes the full listing of ns
\* by its graph's name alone, and no other namespace's listing
ListingFollowsMutation ==
    \A t \in Tasks :
        /\ CreateCommits(t) =>
              /\ ListedNames(db', req[t].namespace)
                    = ListedNames(db, req[t].namespace) \cup {req[t].compute_graph.name}
              /\ \A other \in NsNames \ {req[t].namespace} :
                    ListedNames(db', other) = ListedNames(db, other)
        /\ DeleteCommits(t) =>
              /\ ListedNames(db', req[t].namespace)
                    = ListedNames(db, req[t].namespace) \ {req[t].name}
              /\ \A other \in NsNames \ {req[t].namespace} :
                    ListedNames(db', other) = ListedNames(db, other)

\* C13 (namespace-scoped listing): the full listing of a namespace holds exactly the
\* graphs whose CreateComputeGraph was submitted for that namespace and that were not
\* deleted since: each committed create adds its graph to the listing of the
\* request's namespace only, each committed delete removes it from that listing
\* only, also when one namespace name is a prefix of the other and when the graph
\* definition names another namespace than the request.
C13_NamespaceScopedListing == [][ListingFollowsMutation]_vars

\* task t's CreateNameSpace commits in this step and write() returns Ok
NamespaceCommits(t) == pc[t] = "CreateNameSpace" /\ pc'[t] = "returned" /\ res'[t] = "Ok"

\* creating a namespace that exists leaves the store as it is
RecreateChangesNothing ==
    \A t \in Tasks :
        (NamespaceCommits(t) /\ req[t].name \in DOMAIN db.Namespaces) => db' = db

\* C14 (CreateNamespace is an idempotent upsert): CreateNamespace(N) for a namespace
\* N that exists succeeds and leaves the store as it was after the first
\* CreateNamespace(N): one record for N, the existing record not changed.
C14_IdempotentUpsert == [][RecreateChangesNothing]_vars

\* the blob at `url` was written to its end by a put that returned Ok
FullyWritten(url) ==
    /\ url \in DOMAIN blobs
    /\ blobs[url].complete
    /\ ~blobs[url].truncated

\* C15 (upload before commit): whatever the order of the code and compute_graph
\* fields, the handler has submitted CreateComputeGraph only after put returned the
\* descriptor of the code, the submitted graph carries that descriptor's url, and
\* every committed graph's code_url is the url of a fully written blob.
C15_UploadBeforeCommit ==
    /\ (http.pc # "idle" /\ http.submitted) =>
          /\ http.write_result # None
          /\ FullyWritten(http.write_result.val.url)
          /\ blobs[http.write_result.val.url].data = http.payload
          /\ http.pc = "write" =>
                /\ req[HttpTask].kind = "CreateComputeGraph"
                /\ req[HttpTask].compute_graph = SubmittedGraph
    /\ \A k \in DOMAIN db.ComputeGraphs : FullyWritten(db.ComputeGraphs[k].code_url)

\* a graph was committed by a request whose compute_graph field came before its code
C15_Witness ==
    /\ http.pc = "responded"
    /\ http.response = "Ok"
    /\ http.definition_first
    /\ Len(http.payload) > 0
    /\ DOMAIN db.ComputeGraphs # {}

\* the bytes of the upload in progress that have reached the medium
Written == blobs[BlobUrl(http.file_name.val)].data

\* C16 (write-then-hash, backpressure): while an upload runs, the running digest
\* has absorbed only bytes that are already written to the medium (a chunk is
\* written first and hashed afterwards), and what the stream has delivered is what
\* is written plus at most the one chunk in hand.
C16_WriteThenHash ==
    http.pc = "put" =>
        /\ \E n \in 0..Len(Written) :
              http.hasher = hasher_update(Sha256_new, SubSeq(Written, 1, n))
        /\ http.sent = Written \o (IF http.inflight = None THEN <<>> ELSE http.inflight.val)

\* C17 (error propagation): a request that failed is answered with the kind of its
\* cause, StreamError for a failure of the uploaded byte stream and InternalError
\* for a failure of the blob medium or of the store, and a request whose mutation
\* failed is not answered Ok.
C17_ErrorKindMatchesCause ==
    http.pc = "responded" =>
        /\ http.put_error = Some("StreamError") => http.response = "StreamError"
        /\ http.put_error = Some("IOError") => http.response = "InternalError"
        /\ (http.submitted /\ get_compute_graph(db, SubmittedGraph.namespace,
                                                SubmittedGraph.name) = None)
              => http.response = "InternalError"
        /\ http.response = "Ok" =>
              /\ http.submitted
              /\ get_compute_graph(db, SubmittedGraph.namespace, SubmittedGraph.name)
                    = Some(SubmittedGraph)

\* the names a full listing of the Namespaces partition returns
ListedNamespaces(d) ==
    LET all == get_all_namespaces(d, None, Cardinality(DOMAIN d.Namespaces) + 1).namespaces
    IN {all[i].name : i \in 1..Len(all)}

CreateWithoutNamespace ==
    \A t \in Tasks :
        (CreateCommits(t) /\ req[t].namespace \notin ListedNamespaces(db)) =>
            /\ get_compute_graph(db', req[t].namespace, req[t].compute_graph.name)
                  = Some(req[t].compute_graph)
            /\ db'.Namespaces = db.Namespaces
            /\ req[t].namespace \notin ListedNamespaces(db')

\* C18 (no namespace-existence check): a CreateComputeGraph for a namespace that was
\* never created commits and returns Ok, the graph is then found by
\* get_compute_graph(ns, name), and the Namespaces partition is as before: the
\* namespace is still not listed.
C18_NoNamespaceCheck == [][CreateWithoutNamespace]_vars

DeleteFrame ==
    \A t \in Tasks : DeleteCommits(t) =>
        LET key == GraphKey(req[t].namespace, req[t].name) IN
        /\ key \notin DOMAIN db'.ComputeGraphs
        /\ \A cf \in {"ComputeGraphs", "GraphIndex"} :
              /\ DOMAIN db'[cf] = DOMAIN db[cf] \ {key}
              /\ \A k \in DOMAIN db'[cf] : db'[cf][k] = db[cf][k]
        /\ \A namespace \in NsNames, name \in GraphNames :
              <<namespace, name>> # <<req[t].namespace, req[t].name>> =>
                 get_compute_graph(db', namespace, name)
                    = get_compute_graph(db, namespace, name)
        /\ db'.Namespaces = db.Namespaces
        /\ blobs' = blobs
        /\ key \in DOMAIN db.ComputeGraphs =>
              /\ db.ComputeGraphs[key].code_url \in DOMAIN blobs'
              /\ blobs'[db.ComputeGraphs[key].code_url].complete

\* C19 (delete frame): the step that commits DeleteComputeGraph(ns, name) removes
\* the records under (ns, name) and nothing else: every other graph, of ns or of
\* another namespace, is found unchanged, the Namespaces partition is unchanged,
\* and the blob store is unchanged, the deleted graph's blob included.
C19_DeleteFrame == [][DeleteFrame]_vars

\* a delete has committed; the other graphs, the namespaces and every blob are there
C19_Witness ==
    /\ Returned(1, "DeleteComputeGraph") /\ res[1] = "Ok"
    /\ get_compute_graph(db, req[1].namespace, req[1].name) = None
    /\ Cardinality(DOMAIN db.ComputeGraphs) = 3
    /\ \E k \in DOMAIN db.ComputeGraphs :
          db.ComputeGraphs[k].namespace = req[1].namespace
    /\ ListedNamespaces(db) = NsNames
    /\ DOMAIN blobs = Urls

====
